---------------------------- MODULE Spec2Model ----------------------------
(***************************************************************************)
(* Model of the notebook "Gaussian Mixture Model Selection".               *)
(*                                                                         *)
(* The notebook builds a parameter grid (number of components x type of    *)
(* covariance), hands it with the scoring function gmm_bic_score to a      *)
(* GridSearchCV, calls grid_search.fit(X), reads cv_results_ into a        *)
(* DataFrame whose score column is negated back into a BIC, and plots the  *)
(* best estimator.  The arguments of the GridSearchCV call are left open   *)
(* in the notebook; the model follows the completion the notebook's own    *)
(* text describes: every combination of param_grid is tried, each is       *)
(* cross-validated and scored by gmm_bic_score, the score is maximized,    *)
(* and the best parameters are refitted into best_estimator_.              *)
(*                                                                         *)
(* The Gaussian mixture fit itself (expectation-maximization) is an        *)
(* external numerical routine.  It is represented by the BIC it yields for *)
(* a configuration: a fixed function `bic`, chosen arbitrarily in Init, so *)
(* that the fitter is deterministic within a behaviour and arbitrary       *)
(* across behaviours.  The BIC of a configuration is taken to be the same  *)
(* on every cross-validation split; the selection reads only the mean over *)
(* the splits.                                                             *)
(*                                                                         *)
(* Indices are 1-based here and 0-based in Python.                         *)
(***************************************************************************)
EXTENDS Integers, Sequences, FiniteSets, TLC

\* ------------------------------------------------------------- bounds ---
\* n_components ranges over 1..MaxK (range(1, 7) in the notebook).
MaxK == 2
\* The grid uses the first NumFamilies entries of the declared covariance list.
NumFamilies == 2
\* Number of cross-validation splits of the grid search.
NSplits == 2
\* The BIC of a fitted configuration ranges over -1 .. MaxScore - 1.
MaxScore == 1

\* ------------------------------------------------------ the notebook ---
\* The points of X are 2-dimensional.
n_features == 2

\* param_grid["covariance_type"], in its declared order.
covariance_type == <<"spherical", "tied", "diag", "full">>

\* param_grid["n_components"]: range(1, 7), cut at MaxK.
n_components == [i \in 1..MaxK |-> i]

Families == SubSeq(covariance_type, 1, NumFamilies)

Configs == [covariance_type : {Families[i] : i \in 1..NumFamilies},
            n_components : {n_components[i] : i \in 1..MaxK}]

Folds == 1..NSplits

ScoreVals == {s - 1 : s \in 0..MaxScore}

NumCandidates == NumFamilies * MaxK

\* The enumeration a key-unsorted product would give: n_components outermost.
ParameterGridKMajor ==
    [i \in 1..NumCandidates |->
        [covariance_type |-> Families[((i - 1) % NumFamilies) + 1],
         n_components    |-> n_components[((i - 1) \div NumFamilies) + 1]]]

\* All combinations of param_grid, in the order the grid search tries them:
\* the keys are taken in sorted order ("covariance_type" < "n_components")
\* and the last key varies fastest, so the covariance type is the outer loop
\* and the number of components the inner one.
ParameterGrid ==
    [i \in 1..NumCandidates |->
        [covariance_type |-> Families[((i - 1) \div MaxK) + 1],
         n_components    |-> n_components[((i - 1) % MaxK) + 1]]]

\* A scoring function that forgets to change the sign.
gmm_bic_score_unnegated(b) == b

\* gmm_bic_score(estimator, X) == -estimator.bic(X)
gmm_bic_score(b) == -b

RECURSIVE SumSeq(_)
SumSeq(s) == IF s = <<>> THEN 0 ELSE Head(s) + SumSeq(Tail(s))

\* mean_test_score of one candidate.  All candidates have the same number of
\* splits, so the mean is kept as its numerator over NSplits (exact, and
\* ordered like the mean itself).
Mean(scores) == SumSeq(scores)

\* rank_test_score: rank 1 is the highest mean score, ties share the lower
\* rank (ranking of the negated means, method "min").
RankTestScore(means) ==
    [i \in DOMAIN means |->
        1 + Cardinality({j \in DOMAIN means : -means[j] < -means[i]})]

\* Every candidate of the best rank.
BestIndexAnyTie(means) ==
    LET r == RankTestScore(means)
    IN  {i \in DOMAIN means : \A j \in DOMAIN means : r[i] <= r[j]}

\* The last candidate of the best rank.
BestIndexLast(means) ==
    LET r == RankTestScore(means)
        best == {i \in DOMAIN means : \A j \in DOMAIN means : r[i] <= r[j]}
    IN  {CHOOSE i \in best : \A j \in best : j <= i}

\* The candidate of the worst rank (a search that minimizes the score).
BestIndexMinimizing(means) ==
    LET r == RankTestScore(means)
        worst == {i \in DOMAIN means : \A j \in DOMAIN means : r[i] >= r[j]}
    IN  {CHOOSE i \in worst : \A j \in worst : i <= j}

\* best_index_ = rank_test_score.argmin(): the first candidate of rank 1.
\* A set, so that the choice made by SelectBest is explicit: here a singleton.
BestIndex(means) ==
    LET r == RankTestScore(means)
        best == {i \in DOMAIN means : \A j \in DOMAIN means : r[i] <= r[j]}
    IN  {CHOOSE i \in best : \A j \in best : i <= j}

\* Number of free parameters of a mixture of k components in n_features
\* dimensions: the covariance parameters of the family, the means and the
\* mixing weights.
\*   full:      each component has its own general covariance matrix
\*   tied:      all components share the same general covariance matrix
\*   diag:      each component has its own diagonal covariance matrix
\*   spherical: each component has its own single variance
n_parameters(c) ==
    LET k == c.n_components
        d == n_features
        cov == CASE c.covariance_type = "full"      -> k * ((d * (d + 1)) \div 2)
                 [] c.covariance_type = "tied"      -> (d * (d + 1)) \div 2
                 [] c.covariance_type = "diag"      -> k * d
                 [] c.covariance_type = "spherical" -> k
    IN  cov + k * d + (k - 1)

\* -------------------------------------------------------------- state ---
VARIABLES
    bic,               \* the fitter: BIC of a fitted configuration
    pc,                \* position in grid_search.fit and the cells after it
    run,               \* which execution of the pipeline this is
    candidate_params,  \* the enumerated grid
    cand,              \* candidate being evaluated
    split,             \* split being evaluated
    test_scores,       \* per candidate, the scores of the splits done so far
    n_fits,            \* per configuration, how often it has been fitted
    cv_results_,       \* rows (params, mean_test_score, rank_test_score)
    best_index_,       \* 0 until selected
    best_params_,      \* parameters of the selected candidate
    best_estimator_,   \* the configuration refitted on the whole of X
    df,                \* the DataFrame of the plotting cell
    first_result       \* outcome of the first run, kept for comparison

vars == <<bic, pc, run, candidate_params, cand, split, test_scores, n_fits,
          cv_results_, best_index_, best_params_, best_estimator_, df,
          first_result>>

\* Python's None, for the attributes the search has not set yet.
None == [covariance_type |-> "None", n_components |-> 0]

NoResult == [best_params_ |-> None, best_estimator_ |-> None, df |-> <<>>]

Init ==
    /\ bic \in [Configs -> ScoreVals]
    /\ pc = "start"
    /\ run = 1
    /\ candidate_params = <<>>
    /\ cand = 0
    /\ split = 0
    /\ test_scores = <<>>
    /\ n_fits = [c \in Configs |-> 0]
    /\ cv_results_ = <<>>
    /\ best_index_ = 0
    /\ best_params_ = None
    /\ best_estimator_ = None
    /\ df = <<>>
    /\ first_result = NoResult

\* grid_search.fit(X), first step: enumerate the candidates.
Enumerate ==
    /\ pc = "start"
    /\ candidate_params' = ParameterGrid
    /\ test_scores' = [i \in 1..NumCandidates |-> <<>>]
    /\ cand' = 1
    /\ split' = 1
    /\ pc' = "evaluate"
    /\ UNCHANGED <<bic, run, n_fits, cv_results_, best_index_, best_params_,
                   best_estimator_, df, first_result>>

\* A fit that is attempted a second time before it is scored.
FitAndScoreRetry ==
    /\ pc = "evaluate"
    /\ cand <= NumCandidates
    /\ LET c == candidate_params[cand]
       IN  /\ n_fits' = [n_fits EXCEPT ![c] = @ + 2]
           /\ test_scores' = [test_scores EXCEPT
                  ![cand] = Append(@, gmm_bic_score(bic[c]))]
    /\ IF split < NSplits
          THEN /\ split' = split + 1
               /\ cand' = cand
          ELSE /\ split' = 1
               /\ cand' = cand + 1
    /\ UNCHANGED <<bic, pc, run, candidate_params, cv_results_, best_index_,
                   best_params_, best_estimator_, df, first_result>>

\* One fit of one candidate on one split, scored by gmm_bic_score on the
\* held-out part.  Candidates are evaluated in enumeration order, and for each
\* candidate the splits in order.
FitAndScore ==
    /\ pc = "evaluate"
    /\ cand <= NumCandidates
    /\ LET c == candidate_params[cand]
       IN  /\ n_fits' = [n_fits EXCEPT ![c] = @ + 1]
           /\ test_scores' = [test_scores EXCEPT
                  ![cand] = Append(@, gmm_bic_score(bic[c]))]
    /\ IF split < NSplits
          THEN /\ split' = split + 1
               /\ cand' = cand
          ELSE /\ split' = 1
               /\ cand' = cand + 1
    /\ UNCHANGED <<bic, pc, run, candidate_params, cv_results_, best_index_,
                   best_params_, best_estimator_, df, first_result>>

\* All candidates evaluated: build cv_results_ and select the best.
SelectBest ==
    /\ pc = "evaluate"
    /\ cand > NumCandidates
    /\ LET means == [i \in 1..NumCandidates |-> Mean(test_scores[i])]
           ranks == RankTestScore(means)
       IN  /\ cv_results_' =
                 [i \in 1..NumCandidates |->
                     [param_n_components    |-> candidate_params[i].n_components,
                      param_covariance_type |-> candidate_params[i].covariance_type,
                      mean_test_score       |-> means[i],
                      rank_test_score       |-> ranks[i]]]
           /\ \E b \in BestIndex(means) :
                 /\ best_index_' = b
                 /\ best_params_' = candidate_params[b]
    /\ pc' = "refit"
    /\ UNCHANGED <<bic, run, candidate_params, cand, split, test_scores,
                   n_fits, best_estimator_, df, first_result>>

\* The best parameters are fitted once more, on the whole of X.
Refit ==
    /\ pc = "refit"
    /\ n_fits' = [n_fits EXCEPT ![best_params_] = @ + 1]
    /\ best_estimator_' = best_params_
    /\ pc' = "frame"
    /\ UNCHANGED <<bic, run, candidate_params, cand, split, test_scores,
                   cv_results_, best_index_, best_params_, df, first_result>>

\* The plotting cell: three columns of cv_results_, the score negated back
\* into a BIC, the columns renamed.
MakeFrame ==
    /\ pc = "frame"
    /\ df' = [i \in DOMAIN cv_results_ |->
                 [number_of_components |-> cv_results_[i].param_n_components,
                  type_of_covariance   |-> cv_results_[i].param_covariance_type,
                  bic_score            |-> -cv_results_[i].mean_test_score]]
    /\ pc' = "done"
    /\ UNCHANGED <<bic, run, candidate_params, cand, split, test_scores,
                   n_fits, cv_results_, best_index_, best_params_,
                   best_estimator_, first_result>>

\* What one execution of the pipeline leaves behind.
Result == [best_params_ |-> best_params_,
           best_estimator_ |-> best_estimator_,
           df |-> df]

\* The cells are executed again on the same X with the same fitter.
RunAgain ==
    /\ pc = "done"
    /\ run = 1
    /\ first_result' = Result
    /\ run' = 2
    /\ pc' = "start"
    /\ candidate_params' = <<>>
    /\ cand' = 0
    /\ split' = 0
    /\ test_scores' = <<>>
    /\ n_fits' = [c \in Configs |-> 0]
    /\ cv_results_' = <<>>
    /\ best_index_' = 0
    /\ best_params_' = None
    /\ best_estimator_' = None
    /\ df' = <<>>
    /\ UNCHANGED bic

\* One execution of the notebook.
Next ==
    \/ Enumerate
    \/ FitAndScore
    \/ SelectBest
    \/ Refit
    \/ MakeFrame

Spec == Init /\ [][Next]_vars

\* The notebook executed, and then executed a second time.
NextTwice ==
    \/ Enumerate
    \/ FitAndScore
    \/ SelectBest
    \/ Refit
    \/ MakeFrame
    \/ RunAgain

SpecTwice == Init /\ [][NextTwice]_vars

\* ------------------------------------------------------------ claims ---
Selected == pc \in {"refit", "frame", "done"}

Rows == 1..NumCandidates

\* Position of a covariance type in the declared list.
FamilyPos(name) == CHOOSE i \in 1..Len(covariance_type) : covariance_type[i] = name

\* The configuration a row of the DataFrame stands for.
RowConfig(r) == [covariance_type |-> r.type_of_covariance,
                 n_components    |-> r.number_of_components]

\* BIC of a configuration as the fitter yields it, over the splits (the
\* numerator of its mean, as in Mean).
MeanBic(c) == SumSeq([f \in Folds |-> bic[c]])

C2_Original ==
    pc = "done" =>
        \A i \in Rows :
            LET b  == best_index_
                sb == df[b].bic_score
                si == df[i].bic_score
                pb == n_parameters(RowConfig(df[b]))
                pi == n_parameters(RowConfig(df[i]))
            IN  \/ sb < si
                \/ sb = si /\ pb < pi
                \/ sb = si /\ pb = pi /\ b <= i

\* C2 amended: among the grid points that share the minimum score the
\* earliest in enumeration order is selected, whatever their numbers of free
\* parameters: the selected grid point is the lexicographic minimum of
\* (score, enumeration index).
C2_FirstOfTies ==
    pc = "done" =>
        \A i \in Rows :
            \/ df[best_index_].bic_score < df[i].bic_score
            \/ df[best_index_].bic_score = df[i].bic_score /\ best_index_ <= i

\* C2 witness: a finished search in which a later row ties with the selected
\* one on the minimum score and has fewer free parameters.
C2_Witness ==
    /\ pc = "done"
    /\ \E i \in Rows :
          /\ i > best_index_
          /\ df[i].bic_score = df[best_index_].bic_score
          /\ n_parameters(RowConfig(df[i])) < n_parameters(RowConfig(df[best_index_]))

\* C6 as stated: the table has one row per pair of the Cartesian product, in
\* the order k ascending and, for equal k, the families in declared order.
C6_Original ==
    pc = "done" =>
        /\ Len(df) = Cardinality(Configs)
        /\ \A c \in Configs : \E i \in Rows : RowConfig(df[i]) = c
        /\ \A i, j \in Rows :
              i < j =>
                 \/ df[i].number_of_components < df[j].number_of_components
                 \/ /\ df[i].number_of_components = df[j].number_of_components
                    /\ FamilyPos(df[i].type_of_covariance)
                          < FamilyPos(df[j].type_of_covariance)

\* C6 amended: the table has exactly one row for every pair of the Cartesian
\* product and no other row, in the order: families in their declared order
\* and, for equal family, k ascending.
C6_FamilyMajorTable ==
    pc = "done" =>
        /\ Len(df) = Cardinality(Configs)
        /\ \A i \in Rows : RowConfig(df[i]) \in Configs
        /\ \A c \in Configs : \E i \in Rows : RowConfig(df[i]) = c
        /\ \A i, j \in Rows :
              i < j =>
                 \/ FamilyPos(df[i].type_of_covariance)
                       < FamilyPos(df[j].type_of_covariance)
                 \/ /\ df[i].type_of_covariance = df[j].type_of_covariance
                    /\ df[i].number_of_components < df[j].number_of_components

\* C6 witness: a finished table with several families and several k, whose
\* second row keeps the family of the first and has the next k.
C6_Witness ==
    /\ pc = "done"
    /\ Len(df) >= 4
    /\ df[2].type_of_covariance = df[1].type_of_covariance
    /\ df[2].number_of_components > df[1].number_of_components
    /\ \E i \in Rows : df[i].type_of_covariance # df[1].type_of_covariance

\* C8 as stated: every grid point is fitted once and never again.
C8_Original ==
    /\ \A c \in Configs : n_fits[c] <= 1
    /\ pc = "done" => \A c \in Configs : n_fits[c] = 1

\* C8 amended: every grid point is fitted exactly once per cross-validation
\* split, and only the selected one is fitted once more, on the whole data;
\* no grid point is fitted beyond that.
C8_FitsPerSplit ==
    /\ \A c \in Configs :
          n_fits[c] <= NSplits + (IF c = best_estimator_ THEN 1 ELSE 0)
    /\ pc = "done" =>
          \A c \in Configs :
             n_fits[c] = NSplits + (IF c = best_params_ THEN 1 ELSE 0)

\* C8 witness: a finished search in which the selected grid point has been
\* fitted on every split and refitted, and another one on every split only.
C8_Witness ==
    /\ pc = "done"
    /\ n_fits[best_params_] = NSplits + 1
    /\ \E c \in Configs : c # best_params_ /\ n_fits[c] = NSplits

ArgMinBic ==
    LET low == {i \in Rows :
                  \A j \in Rows : MeanBic(ParameterGrid[i]) <= MeanBic(ParameterGrid[j])}
    IN  CHOOSE i \in low : \A j \in low : i <= j

\* C10: maximizing the score of gmm_bic_score selects the grid point of
\* minimum BIC, ties included.
C10_MaxNegatedIsMinBic ==
    Selected =>
        /\ best_index_ = ArgMinBic
        /\ best_params_ = ParameterGrid[ArgMinBic]

\* C10 witness: a selection made where several grid points share the minimum
\* BIC and another grid point has a larger one.
C10_Witness ==
    /\ pc = "refit"
    /\ \E i \in Rows : i # best_index_
                       /\ MeanBic(ParameterGrid[i]) = MeanBic(best_params_)
    /\ \E i \in Rows : MeanBic(ParameterGrid[i]) > MeanBic(best_params_)

=============================================================================
